---- MODULE Spec2Model ----
(***************************************************************************)
(* Model of the typed resource handle Api<K> (src/src/api/typed.rs) and of *)
(* the auto_default expression rewriter (src/auto-default/src/lib.rs).     *)
(***************************************************************************)
EXTENDS Integers, Sequences, FiniteSets, TLC

VARIABLES
    handle,   \* the Api<K> value: [api: RawApi, client: APIClient]
    scoped,   \* arguments of the last within / group / version call
    server,   \* the stub transport's persisted objects, version and event log
    call,     \* trace of the handle operation invoked last
    watch,    \* the stream returned by the last watch call and its consumer
    input,    \* argument handed to a pure function
    output    \* what the pure function returned

vars == <<handle, scoped, server, call, watch, input, output>>

----------------------------------------------------------------------------
(* Bounds *)

MaxBytes == 3      \* longest pre-encoded byte payload
MaxDepth == 2      \* nesting depth of the expressions given to add_default_bases
MaxRV == 2         \* the stub server accepts this many mutations
MaxFrames == 3     \* frames one watch stream receives
MaxCalls == 3      \* scoping calls made on one handle

----------------------------------------------------------------------------
(* Values *)

None == [kind |-> "None"]

Ok(v) == [ok |-> TRUE, val |-> v]

Err(e) == [ok |-> FALSE, err |-> e]

Names == {"a", "b"}

\* A name no request can be built for (http::Request builder rejects the URI).
BadName == "bad name"

Specs == {"s0", "s1"}

\* A value whose Serialize implementation reports an error.
BadSpec == "unserializable"

\* Domain objects K as the caller holds them.
Objects == [name : Names, spec : Specs \cup {BadSpec}]

Bytes == 0 .. 3

RECURSIVE SeqsUpTo(_, _)
SeqsUpTo(S, n) ==
    IF n = 0 THEN {<<>>}
    ELSE LET shorter == SeqsUpTo(S, n - 1)
         IN  shorter \cup {Append(s, x) : s \in {t \in shorter : Len(t) = n - 1}, x \in S}

----------------------------------------------------------------------------
(* serde_json as used by this crate: an object is written as the bytes     *)
(* <<ObjTag, code of its name, its spec>>; anything else does not decode.  *)

ObjTag == 3

NameCode(n) == IF n = "a" THEN 1 ELSE 2

CodeName(c) == IF c = 1 THEN "a" ELSE "b"

SpecCode(v) == IF v = "s0" THEN 0 ELSE 1

CodeSpec(c) == IF c = 0 THEN "s0" ELSE "s1"

to_vec(o) ==
    IF o.spec = BadSpec THEN Err("SerdeError")
    ELSE Ok(<<ObjTag, NameCode(o.name), SpecCode(o.spec)>>)

from_slice(b) ==
    IF Len(b) = 3 /\ b[1] = ObjTag /\ b[2] \in {1, 2} /\ b[3] \in {0, 1}
    THEN Ok([name |-> CodeName(b[2]), spec |-> CodeSpec(b[3])])
    ELSE Err("SerdeError")

\* The two shapes of a Serialization Compatibility Value.
RawPayload(b) == [kind |-> "bytes", bytes |-> b]

TypedPayload(o) == [kind |-> "typed", obj |-> o]

Payloads ==
    {RawPayload(b) : b \in SeqsUpTo(Bytes, MaxBytes)} \cup {TypedPayload(o) : o \in Objects}

serialize_bytes_reencoded(data) == Ok(<<ObjTag>> \o data.bytes)

\* impl SerializeKubeObject<K> for Vec<u8>
serialize_bytes(data) == Ok(data.bytes)

\* impl SerializeKubeObject<K> for &K
serialize_typed(data) ==
    IF to_vec(data.obj).ok THEN Ok(to_vec(data.obj).val) ELSE Err(to_vec(data.obj).err)

\* Static dispatch on the payload's type.
serialize_kube_object(data) ==
    IF data.kind = "bytes" THEN serialize_bytes(data) ELSE serialize_typed(data)

----------------------------------------------------------------------------
(* Expressions (syn::Expr), as far as add_default_bases tells them apart   *)

Path(leading, segs) == [kind |-> "Path", leading |-> leading, segs |-> segs]

Lit(v) == [kind |-> "Lit", v |-> v]

Paren(e) == [kind |-> "Paren", inner |-> e]

Field(m, e) == [member |-> m, expr |-> e]

Struct(name, fields, rest) ==
    [kind |-> "Struct", name |-> name, fields |-> fields, rest |-> rest]

Call(func, args) == [kind |-> "Call", func |-> func, args |-> args]

\* parse_quote!(Default::default())
DefaultCall == Call(Path(FALSE, <<"Default", "default">>), <<>>)

\* syn::Path::is_ident
is_ident(path, ident) ==
    /\ ~path.leading
    /\ Len(path.segs) = 1
    /\ path.segs[1] = ident

EmptyStruct == Struct("T", <<>>, None)

\* The expressions of depth 0: __, ::__, m::__, x, a literal and T {}.
Atoms ==
    { Path(FALSE, <<"__">>), Path(TRUE, <<"__">>), Path(FALSE, <<"m", "__">>),
      Path(FALSE, <<"x">>), Lit(1), EmptyStruct }

RECURSIVE Exprs(_)
Exprs(d) ==
    IF d = 0 THEN Atoms
    ELSE LET E == Exprs(d - 1)
             B == Atoms \cup {None}
         IN  E
             \cup {Struct("S", <<Field("f", e)>>, b) : e \in E, b \in B}
             \cup {Struct("S", <<Field("f", EmptyStruct), Field("g", e)>>, None) : e \in E}
             \cup {Struct("S", <<>>, e) : e \in E \cup {None}}
             \cup {Call(Path(FALSE, <<"x">>), <<e>>) : e \in E}
             \cup {Call(Path(FALSE, <<"x">>), <<Lit(1), e>>) : e \in E}
             \cup {Call(e, <<>>) : e \in E}
             \cup {Paren(e) : e \in E}

new_rest_keep_placeholder(rest) ==
    IF rest = None THEN DefaultCall ELSE rest

\* lib.rs: the match that computes the new expr.rest
new_rest(rest) ==
    IF rest = None THEN DefaultCall
    ELSE IF rest.kind = "Path" /\ is_ident(rest, "__") THEN None
    ELSE rest

RECURSIVE add_default_bases(_)
add_default_bases(expr) ==
    IF expr.kind = "Struct" THEN
        [expr EXCEPT
            !.rest = new_rest(expr.rest),
            !.fields = [i \in 1 .. Len(expr.fields) |->
                          [expr.fields[i] EXCEPT !.expr = add_default_bases(expr.fields[i].expr)]]]
    ELSE IF expr.kind = "Call" THEN
        [expr EXCEPT
            !.args = [i \in 1 .. Len(expr.args) |-> add_default_bases(expr.args[i])]]
    ELSE expr

\* pub fn auto_default: parse, rewrite, print.
auto_default(expr) == add_default_bases(expr)

----------------------------------------------------------------------------
(* Specification of the pure functions: one input, one application         *)

\* The trace of one handle operation: how often it called the request
\* builder and the transport, what each answered, and what it returned.
Trace(op, ser, builder, transport, built, reply, result) ==
    [op |-> op, ser |-> ser, builder |-> builder, transport |-> transport,
     built |-> built, reply |-> reply, result |-> result]

Idle ==
    [t |-> Trace("none", None, 0, 0, None, None, None),
     arg |-> None, env |-> None, created |-> None]

InitPure ==
    /\ handle = None
    /\ scoped = None
    /\ server = None
    /\ call = Idle
    /\ watch = None
    /\ input \in {[fn |-> "serialize", arg |-> p] : p \in Payloads}
                 \cup {[fn |-> "auto_default", arg |-> e] : e \in Exprs(MaxDepth)}
    /\ output = None

Serialize ==
    /\ output = None
    /\ input.fn = "serialize"
    /\ output' = serialize_kube_object(input.arg)
    /\ UNCHANGED <<handle, scoped, server, call, watch, input>>

AutoDefault ==
    /\ output = None
    /\ input.fn = "auto_default"
    /\ output' = [expr |-> auto_default(input.arg)]
    /\ UNCHANGED <<handle, scoped, server, call, watch, input>>

NextPure == Serialize \/ AutoDefault

SpecPure == InitPure /\ [][NextPure]_vars

Serialized == input.fn = "serialize" /\ output # None

\* C4: the Serialization Adapter returns a pre-encoded byte payload as the
\* same byte sequence and never as an error, and returns for a typed object
\* the bytes of directly encoding it, an error exactly when that encoding fails.
C4_AdapterFaithful ==
    Serialized =>
        IF input.arg.kind = "bytes"
        THEN output.ok /\ output.val = input.arg.bytes
        ELSE LET direct == to_vec(input.arg.obj)
             IN  /\ output.ok <=> direct.ok
                 /\ direct.ok => output.val = direct.val

C4_Witness ==
    /\ Serialized
    /\ input.arg.kind = "bytes"
    /\ Len(input.arg.bytes) >= 2
    /\ output.ok

Rewrote == input.fn = "auto_default" /\ output # None

\* The rewriting as the claim words it: o is e with every struct literal
\* reached through field values and call arguments given its new base.
RECURSIVE Rewritten(_, _)
Rewritten(e, o) ==
    IF e.kind = "Struct" THEN
        /\ o.kind = "Struct"
        /\ o.name = e.name
        /\ e.rest = None => o.rest = DefaultCall
        /\ e.rest = Path(FALSE, <<"__">>) => o.rest = None
        /\ e.rest \notin {None, Path(FALSE, <<"__">>)} => o.rest = e.rest
        /\ Len(o.fields) = Len(e.fields)
        /\ \A i \in 1 .. Len(e.fields) :
              /\ o.fields[i].member = e.fields[i].member
              /\ Rewritten(e.fields[i].expr, o.fields[i].expr)
    ELSE IF e.kind = "Call" THEN
        /\ o.kind = "Call"
        /\ o.func = e.func
        /\ Len(o.args) = Len(e.args)
        /\ \A i \in 1 .. Len(e.args) : Rewritten(e.args[i], o.args[i])
    ELSE o = e

\* C10: add_default_bases gives a struct literal without base the base
\* Default::default(), removes a base that is the bare identifier __, keeps
\* any other base, recurses into field values and call arguments, and leaves
\* the base itself and every other kind of expression unchanged.
C10_DefaultBases == Rewrote => Rewritten(input.arg, output.expr)

C10_Witness ==
    /\ Rewrote
    /\ input.arg.kind = "Struct"
    /\ input.arg.rest = Path(FALSE, <<"__">>)
    /\ Len(input.arg.fields) = 1
    /\ input.arg.fields[1].expr.kind = "Call"
    /\ Len(input.arg.fields[1].expr.args) = 1
    /\ input.arg.fields[1].expr.args[1] = EmptyStruct
    /\ output.expr.rest = None
    /\ output.expr.fields[1].expr.args[1].rest = DefaultCall

----------------------------------------------------------------------------
(* RawApi, the request builder: its scope and its scoping calls            *)

Some(v) == [kind |-> "Some", v |-> v]

Kinds == {"foos", "bars"}

Clients == {"c1", "c2"}

Namespaces == {"a", "b"}

Groups == {"g1", "g2"}

Versions == {"v1", "v2"}

RawApi_customResource(name) ==
    [resource |-> name, group |-> "", version |-> "v1", namespace |-> None]

RawApi_within(api, ns) == [api EXCEPT !.namespace = Some(ns)]

RawApi_group(api, group) == [api EXCEPT !.group = group]

RawApi_version(api, version) == [api EXCEPT !.version = version]

\* Api::customResource
Api_customResource(client, name) ==
    [api |-> RawApi_customResource(name), client |-> client]

Api_within_adds(self, ns) ==
    [self EXCEPT !.api = RawApi_group(RawApi_within(self.api, ns), ns)]

\* Api::within
Api_within(self, ns) == [self EXCEPT !.api = RawApi_within(self.api, ns)]

\* Api::group
Api_group(self, group) == [self EXCEPT !.api = RawApi_group(self.api, group)]

\* Api::version
Api_version(self, version) == [self EXCEPT !.api = RawApi_version(self.api, version)]

ScopeCall(fn, arg) == [fn |-> fn, arg |-> arg]

InitScope ==
    /\ \E c \in Clients, k \in Kinds :
          /\ handle = Api_customResource(c, k)
          /\ scoped = [client |-> c, name |-> k, calls |-> <<>>]
    /\ server = None
    /\ call = Idle
    /\ watch = None
    /\ input = None
    /\ output = None

Within ==
    /\ Len(scoped.calls) < MaxCalls
    /\ \E ns \in Namespaces :
          /\ handle' = Api_within(handle, ns)
          /\ scoped' = [scoped EXCEPT !.calls = Append(@, ScopeCall("within", ns))]
    /\ UNCHANGED <<server, call, watch, input, output>>

Group ==
    /\ Len(scoped.calls) < MaxCalls
    /\ \E g \in Groups :
          /\ handle' = Api_group(handle, g)
          /\ scoped' = [scoped EXCEPT !.calls = Append(@, ScopeCall("group", g))]
    /\ UNCHANGED <<server, call, watch, input, output>>

Version ==
    /\ Len(scoped.calls) < MaxCalls
    /\ \E v \in Versions :
          /\ handle' = Api_version(handle, v)
          /\ scoped' = [scoped EXCEPT !.calls = Append(@, ScopeCall("version", v))]
    /\ UNCHANGED <<server, call, watch, input, output>>

NextScope == Within \/ Group \/ Version

SpecScope == InitScope /\ [][NextScope]_vars

\* The arguments of the calls of fn, oldest first.
ArgsOf(fn) ==
    LET mine == SelectSeq(scoped.calls, LAMBDA c : c.fn = fn)
    IN  [i \in 1 .. Len(mine) |-> mine[i].arg]

LastOr(args, default) == IF Len(args) = 0 THEN default ELSE args[Len(args)]

Constructed == Api_customResource(scoped.client, scoped.name)

\* C3: after any sequence of within/group/version calls the namespace is the
\* argument of the last within call, the group that of the last group call and
\* the version that of the last version call, a field no call named keeps its
\* value from construction, and the resource kind and the transport client
\* are those the handle was constructed with.
C3_LastWriteWins ==
    /\ handle.api.namespace =
          (IF Len(ArgsOf("within")) = 0 THEN Constructed.api.namespace
           ELSE Some(LastOr(ArgsOf("within"), "")))
    /\ handle.api.group = LastOr(ArgsOf("group"), Constructed.api.group)
    /\ handle.api.version = LastOr(ArgsOf("version"), Constructed.api.version)
    /\ handle.api.resource = Constructed.api.resource
    /\ handle.client = Constructed.client

C3_Witness ==
    /\ Len(ArgsOf("within")) = 2
    /\ ArgsOf("within") = <<"a", "b">>
    /\ Len(ArgsOf("group")) = 1
    /\ handle.api.namespace = Some("b")
    /\ handle.api.group = "g2"

----------------------------------------------------------------------------
(* RawApi, the request builder: one request description per operation      *)

\* Validity of a ListParams / PostParams / DeleteParams value.
Params == {"valid", "invalid"}

Request(op, api, name, body, version) ==
    [op |-> op, api |-> api, name |-> name, body |-> body, version |-> version]

BuildNamed(op, api, name, body) ==
    IF name = BadName THEN Err("RequestBuildError")
    ELSE Ok(Request(op, api, name, body, 0))

BuildScoped(op, api, params, body, version) ==
    IF params = "invalid" THEN Err("RequestBuildError")
    ELSE Ok(Request(op, api, "", body, version))

RawApi_get(api, name) == BuildNamed("get", api, name, <<>>)

RawApi_create(api, pp, data) == BuildScoped("create", api, pp, data, 0)

RawApi_delete(api, name) == BuildNamed("delete", api, name, <<>>)

RawApi_list(api, lp) == BuildScoped("list", api, lp, <<>>, 0)

RawApi_delete_collection(api, lp) == BuildScoped("delete_collection", api, lp, <<>>, 0)

RawApi_patch(api, name, patch) == BuildNamed("patch", api, name, patch)

RawApi_replace(api, name, data) == BuildNamed("replace", api, name, data)

RawApi_watch(api, lp, version) == BuildScoped("watch", api, lp, <<>>, version)

----------------------------------------------------------------------------
(* APIClient, the transport, over a stub server that persists objects       *)

Persisted(o, v) == [name |-> o.name, spec |-> o.spec, rv |-> v]

Event(type, object) == [type |-> type, object |-> object]

EmptyServer == [store |-> [n \in Names |-> None], rv |-> 0, log |-> <<>>]

Present(srv) == {n \in Names : srv.store[n] # None}

\* The stored objects, ordered by name.
RECURSIVE Items(_, _)
Items(srv, names) ==
    IF names = {} THEN <<>>
    ELSE LET n == CHOOSE m \in names : \A k \in names : NameCode(m) <= NameCode(k)
         IN  <<srv.store[n]>> \o Items(srv, names \ {n})

ObjectList(srv) == [items |-> Items(srv, Present(srv)), rv |-> srv.rv]

Put(srv, type, o) ==
    LET p == Persisted(o, srv.rv + 1)
    IN  [store |-> [srv.store EXCEPT ![o.name] = p],
         rv |-> srv.rv + 1,
         log |-> Append(srv.log, Event(type, p))]

Remove(srv, name) ==
    LET p == [srv.store[name] EXCEPT !.rv = srv.rv + 1]
    IN  [store |-> [srv.store EXCEPT ![name] = None],
         rv |-> srv.rv + 1,
         log |-> Append(srv.log, Event("DELETED", p))]

RemoveAll(srv) ==
    LET gone == Items(srv, Present(srv))
    IN  [store |-> [n \in Names |-> None],
         rv |-> srv.rv + 1,
         log |-> srv.log \o [i \in 1 .. Len(gone) |->
                               Event("DELETED", [gone[i] EXCEPT !.rv = srv.rv + 1])]]

Reply(srv, reply) == [server |-> srv, reply |-> reply]

\* The shape of a delete response body: the removed object(s) or a Status.
Shaped(shape, removed) ==
    IF shape = "object" THEN [shape |-> "object", body |-> removed]
    ELSE [shape |-> "status", body |-> "Success"]

\* What the stub server does with a request and what it answers.
Serve(srv, req, shape) ==
    LET sent == from_slice(req.body)
    IN  CASE req.op = "get" ->
               IF srv.store[req.name] = None THEN Reply(srv, Err("NotFound"))
               ELSE Reply(srv, Ok(srv.store[req.name]))
          [] req.op = "create" ->
               IF ~sent.ok THEN Reply(srv, Err("ValidationError"))
               ELSE IF srv.store[sent.val.name] # None THEN Reply(srv, Err("Conflict"))
               ELSE LET next == Put(srv, "ADDED", sent.val)
                    IN  Reply(next, Ok(next.store[sent.val.name]))
          [] req.op \in {"replace", "patch"} ->
               IF srv.store[req.name] = None THEN Reply(srv, Err("NotFound"))
               ELSE IF ~sent.ok \/ sent.val.name # req.name
                    THEN Reply(srv, Err("ValidationError"))
               ELSE LET next == Put(srv, "MODIFIED", sent.val)
                    IN  Reply(next, Ok(next.store[req.name]))
          [] req.op = "delete" ->
               IF srv.store[req.name] = None THEN Reply(srv, Err("NotFound"))
               ELSE Reply(Remove(srv, req.name), Ok(Shaped(shape, srv.store[req.name])))
          [] req.op = "delete_collection" ->
               Reply(RemoveAll(srv), Ok(Shaped(shape, ObjectList(srv))))
          [] req.op = "list" -> Reply(srv, Ok(ObjectList(srv)))
          [] OTHER -> Reply(srv, Err("MethodNotAllowed"))

\* What the transport meets on one call: a fault, and the server's choice of
\* delete response shape.
Faults == {"none", "NetworkError"}

Shapes == {"object", "status"}

Env(fault, shape) == [fault |-> fault, shape |-> shape]

Done(srv, result) == [server |-> srv, result |-> result]

\* APIClient::request
APIClient_request(srv, req, env) ==
    IF env.fault # "none" THEN Done(srv, Err(env.fault))
    ELSE LET r == Serve(srv, req, env.shape) IN Done(r.server, r.reply)

Left(v) == [tag |-> "Left", v |-> v]

Right(v) == [tag |-> "Right", v |-> v]

\* APIClient::request_status: the tag is chosen from the body's shape.
APIClient_request_status(srv, req, env) ==
    IF env.fault # "none" THEN Done(srv, Err(env.fault))
    ELSE LET r == Serve(srv, req, env.shape)
         IN  IF ~r.reply.ok THEN Done(r.server, r.reply)
             ELSE IF r.reply.val.shape = "object"
                  THEN Done(r.server, Ok(Left(r.reply.val.body)))
             ELSE Done(r.server, Ok(Right(r.reply.val.body)))

\* APIClient::request_events: the stream of the events after req.version.
\* delivered holds the frames received so far, each as its decoding result.
APIClient_request_events(srv, req, env) ==
    IF env.fault # "none" THEN Done(srv, Err(env.fault))
    ELSE Done(srv, Ok([from |-> req.version, sent |-> 0, delivered |-> <<>>, closed |-> FALSE]))

\* The server events a stream has still to receive.
Pending(srv, stream) ==
    LET after == SelectSeq(srv.log, LAMBDA e : e.object.rv > stream.from)
    IN  SubSeq(after, stream.sent + 1, Len(after))

----------------------------------------------------------------------------
(* Api<K>: the operations of the typed handle                               *)

Outcome(srv, trace) == [server |-> srv, trace |-> trace]

\* `data.serialize_kube_object()?` returned early.
Refused(op, srv, ser) ==
    Outcome(srv, Trace(op, ser, 0, 0, None, None, Err(ser.err)))

\* `self.api.<op>(..)?` returned early.
NotBuilt(op, srv, ser, built) ==
    Outcome(srv, Trace(op, ser, 1, 0, built, None, Err(built.err)))

\* The transport's answer is the operation's answer.
Sent(op, ser, built, r) ==
    Outcome(r.server, Trace(op, ser, 1, 1, built, r.result, r.result))

Api_get_first_name(self, srv, name, env) ==
    LET req == RawApi_get(self.api, "a")
    IN  Sent("get", None, req, APIClient_request(srv, req.val, env))

Api_get_retry(self, srv, name, env) ==
    LET req == RawApi_get(self.api, name)
    IN  IF ~req.ok THEN NotBuilt("get", srv, None, req)
        ELSE LET first == APIClient_request(srv, req.val, env)
                 again == APIClient_request(first.server, req.val, env)
             IN  IF first.result.ok THEN Sent("get", None, req, first)
                 ELSE Outcome(again.server,
                              Trace("get", None, 1, 2, req, again.result, again.result))

\* Api::get
Api_get(self, srv, name, env) ==
    LET req == RawApi_get(self.api, name)
    IN  IF ~req.ok THEN NotBuilt("get", srv, None, req)
        ELSE Sent("get", None, req, APIClient_request(srv, req.val, env))

Api_create_unchecked(self, srv, pp, data, env) ==
    LET bytes == serialize_kube_object(data)
        req == RawApi_create(self.api, pp, IF bytes.ok THEN bytes.val ELSE <<>>)
    IN  IF ~req.ok THEN NotBuilt("create", srv, bytes, req)
        ELSE Sent("create", bytes, req, APIClient_request(srv, req.val, env))

\* Api::create
Api_create(self, srv, pp, data, env) ==
    LET bytes == serialize_kube_object(data)
    IN  IF ~bytes.ok THEN Refused("create", srv, bytes)
        ELSE LET req == RawApi_create(self.api, pp, bytes.val)
             IN  IF ~req.ok THEN NotBuilt("create", srv, bytes, req)
                 ELSE Sent("create", bytes, req, APIClient_request(srv, req.val, env))

Flip(result) ==
    IF ~result.ok THEN result
    ELSE IF result.val.tag = "Left" THEN Ok(Right(result.val.v))
    ELSE Ok(Left(result.val.v))

Api_delete_flipped(self, srv, name, env) ==
    LET req == RawApi_delete(self.api, name)
    IN  IF ~req.ok THEN NotBuilt("delete", srv, None, req)
        ELSE LET r == APIClient_request_status(srv, req.val, env)
             IN  Outcome(r.server, Trace("delete", None, 1, 1, req, r.result, Flip(r.result)))

\* Api::delete
Api_delete(self, srv, name, env) ==
    LET req == RawApi_delete(self.api, name)
    IN  IF ~req.ok THEN NotBuilt("delete", srv, None, req)
        ELSE Sent("delete", None, req, APIClient_request_status(srv, req.val, env))

\* Api::list
Api_list(self, srv, lp, env) ==
    LET req == RawApi_list(self.api, lp)
    IN  IF ~req.ok THEN NotBuilt("list", srv, None, req)
        ELSE Sent("list", None, req, APIClient_request(srv, req.val, env))

\* Api::delete_collection
Api_delete_collection(self, srv, lp, env) ==
    LET req == RawApi_delete_collection(self.api, lp)
    IN  IF ~req.ok THEN NotBuilt("delete_collection", srv, None, req)
        ELSE Sent("delete_collection", None, req,
                  APIClient_request_status(srv, req.val, env))

\* Api::patch
Api_patch(self, srv, name, patch, env) ==
    LET req == RawApi_patch(self.api, name, patch)
    IN  IF ~req.ok THEN NotBuilt("patch", srv, None, req)
        ELSE Sent("patch", None, req, APIClient_request(srv, req.val, env))

\* Api::replace
Api_replace(self, srv, name, data, env) ==
    LET bytes == serialize_kube_object(data)
    IN  IF ~bytes.ok THEN Refused("replace", srv, bytes)
        ELSE LET req == RawApi_replace(self.api, name, bytes.val)
             IN  IF ~req.ok THEN NotBuilt("replace", srv, bytes, req)
                 ELSE Sent("replace", bytes, req, APIClient_request(srv, req.val, env))

\* stream.filter_map(..): the stream handed to the caller, over the
\* transport's stream. pos counts the frames taken from the transport,
\* requests the request_events calls made for this sequence.
FilterMap(stream) ==
    [inner |-> stream, pos |-> 0, produced |-> <<>>, done |-> FALSE, requests |-> 1]

Api_watch_from_start(self, srv, lp, version, env) ==
    LET req == RawApi_watch(self.api, lp, 0)
    IN  IF ~req.ok THEN NotBuilt("watch", srv, None, req)
        ELSE LET r == APIClient_request_events(srv, req.val, env)
                 result == IF r.result.ok THEN Ok(FilterMap(r.result.val)) ELSE r.result
             IN  Outcome(r.server, Trace("watch", None, 1, 1, req, r.result, result))

\* Api::watch, up to the stream it returns
Api_watch(self, srv, lp, version, env) ==
    LET req == RawApi_watch(self.api, lp, version)
    IN  IF ~req.ok THEN NotBuilt("watch", srv, None, req)
        ELSE LET r == APIClient_request_events(srv, req.val, env)
                 result == IF r.result.ok THEN Ok(FilterMap(r.result.val)) ELSE r.result
             IN  Outcome(r.server, Trace("watch", None, 1, 1, req, r.result, result))

\* The closure `|e| async move { e.ok() }`
filter_map_ok(item) == IF item.ok THEN <<item.val>> ELSE <<>>

poll_next_until_err(fm) ==
    IF fm.pos < Len(fm.inner.delivered) THEN
        LET item == fm.inner.delivered[fm.pos + 1]
        IN  IF item.ok THEN [fm EXCEPT !.pos = @ + 1, !.produced = Append(@, item.val)]
            ELSE [fm EXCEPT !.pos = @ + 1, !.done = TRUE]
    ELSE IF fm.inner.closed THEN [fm EXCEPT !.done = TRUE]
    ELSE fm

poll_next_reconnect(fm) ==
    IF fm.pos < Len(fm.inner.delivered) THEN
        [fm EXCEPT !.pos = @ + 1,
                   !.produced = @ \o filter_map_ok(fm.inner.delivered[fm.pos + 1])]
    ELSE IF fm.inner.closed /\ fm.requests = 1
         THEN [fm EXCEPT !.requests = @ + 1, !.inner.closed = FALSE]
    ELSE IF fm.inner.closed THEN [fm EXCEPT !.done = TRUE]
    ELSE fm

\* One poll of the returned stream's source: a frame the transport holds is
\* taken and filtered, the end of the transport's stream ends the sequence,
\* and otherwise the poll is pending.
poll_next(fm) ==
    IF fm.pos < Len(fm.inner.delivered) THEN
        [fm EXCEPT !.pos = @ + 1,
                   !.produced = @ \o filter_map_ok(fm.inner.delivered[fm.pos + 1])]
    ELSE IF fm.inner.closed THEN [fm EXCEPT !.done = TRUE]
    ELSE fm

----------------------------------------------------------------------------
(* Specification of the handle over the stub transport                      *)

Envs == {Env(f, "object") : f \in Faults}

DeleteEnvs == {Env(f, sh) : f \in Faults, sh \in Shapes}

AnyName == Names \cup {BadName}

\* Payloads given to create and replace: typed objects, the encoding of an
\* object prepared by the caller, and bytes that are no object.
CrudPayloads ==
    {TypedPayload(o) : o \in Objects}
    \cup {RawPayload(to_vec([name |-> "a", spec |-> "s1"]).val), RawPayload(<<0>>)}

Patches == {to_vec([name |-> n, spec |-> "s1"]).val : n \in Names} \cup {<<0>>}

Invoked(o, arg, env, created) ==
    [t |-> o.trace, arg |-> arg, env |-> env, created |-> created]

Init ==
    /\ handle = Api_customResource("c1", "foos")
    /\ scoped = None
    /\ server = EmptyServer
    /\ call = Idle
    /\ watch = None
    /\ input = None
    /\ output = None

\* The create the handle performed just before, when it persisted `name`.
JustCreated(name) ==
    IF call.t.op = "create" /\ call.t.result.ok /\ call.t.result.val.name = name
    THEN [object |-> call.t.result.val, data |-> call.arg.data]
    ELSE None

Get ==
    /\ \E name \in AnyName, env \in Envs :
          LET o == Api_get(handle, server, name, env)
          IN  /\ server' = o.server
              /\ call' = Invoked(o, [name |-> name], env, JustCreated(name))
    /\ UNCHANGED <<handle, scoped, watch, input, output>>

Create ==
    /\ server.rv < MaxRV
    /\ \E pp \in Params, data \in CrudPayloads, env \in Envs :
          LET o == Api_create(handle, server, pp, data, env)
          IN  /\ server' = o.server
              /\ call' = Invoked(o, [pp |-> pp, data |-> data], env, None)
    /\ UNCHANGED <<handle, scoped, watch, input, output>>

Delete ==
    /\ server.rv < MaxRV
    /\ \E name \in AnyName, env \in DeleteEnvs :
          LET o == Api_delete(handle, server, name, env)
          IN  /\ server' = o.server
              /\ call' = Invoked(o, [name |-> name], env, None)
    /\ UNCHANGED <<handle, scoped, watch, input, output>>

ListWith(params, envs) ==
    /\ \E lp \in params, env \in envs :
          LET o == Api_list(handle, server, lp, env)
          IN  /\ server' = o.server
              /\ call' = Invoked(o, [lp |-> lp], env, None)
    /\ UNCHANGED <<handle, scoped, watch, input, output>>

List == ListWith(Params, Envs)

DeleteCollection ==
    /\ server.rv < MaxRV
    /\ \E lp \in Params, env \in DeleteEnvs :
          LET o == Api_delete_collection(handle, server, lp, env)
          IN  /\ server' = o.server
              /\ call' = Invoked(o, [lp |-> lp], env, None)
    /\ UNCHANGED <<handle, scoped, watch, input, output>>

Patch ==
    /\ server.rv < MaxRV
    /\ \E name \in AnyName, patch \in Patches, env \in Envs :
          LET o == Api_patch(handle, server, name, patch, env)
          IN  /\ server' = o.server
              /\ call' = Invoked(o, [name |-> name, patch |-> patch], env, None)
    /\ UNCHANGED <<handle, scoped, watch, input, output>>

Replace ==
    /\ server.rv < MaxRV
    /\ \E name \in AnyName, data \in CrudPayloads, env \in Envs :
          LET o == Api_replace(handle, server, name, data, env)
          IN  /\ server' = o.server
              /\ call' = Invoked(o, [name |-> name, data |-> data], env, None)
    /\ UNCHANGED <<handle, scoped, watch, input, output>>

\* The list result a watch starts from: the list the handle performed just
\* before, when the watch is given that result's resource version.
JustListed(version) ==
    IF call.t.op = "list" /\ call.t.result.ok /\ call.t.result.val.rv = version
    THEN call.t.result.val
    ELSE None

WatchWith(params, envs) ==
    /\ \E lp \in params, version \in 0 .. server.rv, env \in envs :
          LET o == Api_watch(handle, server, lp, version, env)
          IN  /\ server' = o.server
              /\ call' = Invoked(o, [lp |-> lp, version |-> version], env, None)
              /\ watch' = IF o.trace.result.ok
                          THEN [sub |-> o.trace.result.val, list |-> JustListed(version)]
                          ELSE watch
    /\ UNCHANGED <<handle, scoped, input, output>>

Watch == WatchWith(Params, Envs)

\* The transport receives a frame of the open stream: the next event of the
\* server, or a frame that does not decode.
Arrive ==
    /\ watch # None
    /\ ~watch.sub.inner.closed
    /\ Len(watch.sub.inner.delivered) < MaxFrames
    /\ \/ /\ Pending(server, watch.sub.inner) # <<>>
          /\ watch' = [watch EXCEPT
                !.sub.inner.delivered = Append(@, Ok(Pending(server, watch.sub.inner)[1])),
                !.sub.inner.sent = @ + 1]
       \/ watch' = [watch EXCEPT !.sub.inner.delivered = Append(@, Err("SerdeError"))]
    /\ UNCHANGED <<handle, scoped, server, call, input, output>>

\* The connection fails: the transport's stream reports the error as its
\* last item and ends.
StreamError ==
    /\ watch # None
    /\ ~watch.sub.inner.closed
    /\ Len(watch.sub.inner.delivered) < MaxFrames
    /\ watch' = [watch EXCEPT
          !.sub.inner.delivered = Append(@, Err("NetworkError")),
          !.sub.inner.closed = TRUE]
    /\ UNCHANGED <<handle, scoped, server, call, input, output>>

\* The transport's stream ends.
StreamEnd ==
    /\ watch # None
    /\ ~watch.sub.inner.closed
    /\ watch' = [watch EXCEPT !.sub.inner.closed = TRUE]
    /\ UNCHANGED <<handle, scoped, server, call, input, output>>

\* The consumer pulls the returned stream, which polls the transport's.
WatchPoll ==
    /\ watch # None
    /\ ~watch.sub.done
    /\ watch.sub.pos < Len(watch.sub.inner.delivered) \/ watch.sub.inner.closed
    /\ watch' = [watch EXCEPT !.sub = poll_next(watch.sub)]
    /\ UNCHANGED <<handle, scoped, server, call, input, output>>

\* Another client of the server creates, modifies or removes an object.
Mutate ==
    /\ server.rv < MaxRV
    /\ \/ \E n \in Names \ Present(server) :
             server' = Put(server, "ADDED", [name |-> n, spec |-> "s0"])
       \/ \E n \in Present(server) :
             server' = Put(server, "MODIFIED", [name |-> n, spec |-> "s1"])
       \/ \E n \in Present(server) : server' = Remove(server, n)
    /\ UNCHANGED <<handle, scoped, call, watch, input, output>>

\* The operations of the handle, each a single request.
Next ==
    \/ Get
    \/ Create
    \/ Delete
    \/ List
    \/ DeleteCollection
    \/ Patch
    \/ Replace
    \/ Watch

Spec == Init /\ [][Next]_vars

\* A watch and its consumer, beside the other clients of the server.
ListReachable == ListWith({"valid"}, {Env("none", "object")})

WatchReachable == WatchWith({"valid"}, {Env("none", "object")})

NextWatch ==
    \/ Mutate
    \/ ListReachable
    \/ WatchReachable
    \/ Arrive
    \/ StreamError
    \/ StreamEnd
    \/ WatchPoll

SpecWatch == Init /\ [][NextWatch]_vars

----------------------------------------------------------------------------
(* Claims about the operations                                              *)

Deleted == call.t.op \in {"delete", "delete_collection"} /\ call.t.result.ok

\* C2: the Deletion Outcome of delete and delete_collection carries the tag
\* chosen from the response shape: a response shaped as the removed object
\* (or their list) comes back tagged Left with that body, one shaped as an
\* Operation Status tagged Right, and the handle returns the transport's
\* tagged value as it is.
C2_DeletionTag ==
    Deleted =>
        /\ call.t.result.val.tag = "Left" <=> call.env.shape = "object"
        /\ call.t.result.val.tag = "Right" <=> call.env.shape = "status"
        /\ call.t.result.val.tag = "Right" => call.t.result.val.v = "Success"
        /\ (call.t.result.val.tag = "Left" /\ call.t.op = "delete") =>
              call.t.result.val.v.name = call.arg.name
        /\ call.t.result = call.t.reply

C2_Witness ==
    /\ Deleted
    /\ call.t.op = "delete_collection"
    /\ call.t.result.val.tag = "Left"
    /\ Len(call.t.result.val.v.items) = 1

\* The object the stub is asked to persist for a payload.
Carried(data) == from_slice(serialize_kube_object(data).val).val

GotAfterCreate == call.t.op = "get" /\ call.created # None /\ call.env.fault = "none"

\* C5: over the persisting stub, a get of the name just created by the same
\* handle returns the object that create returned, which is the persisted
\* form of the created payload.
C5_CreateThenGet ==
    GotAfterCreate =>
        /\ call.t.result = Ok(call.created.object)
        /\ call.t.result.val.name = Carried(call.created.data).name
        /\ call.t.result.val.spec = Carried(call.created.data).spec
        /\ call.t.result.val.name = call.arg.name

C5_Witness ==
    /\ GotAfterCreate
    /\ call.arg.name = "b"
    /\ call.created.data.kind = "typed"
    /\ call.t.result.ok
    /\ call.t.result.val.spec = "s1"

Unencodable(data) == data.kind = "typed" /\ ~to_vec(data.obj).ok

BadPayload == call.t.op \in {"create", "replace"} /\ Unencodable(call.arg.data)

\* C7: a create or replace whose payload cannot be encoded fails with the
\* serialization error, having called neither the request builder nor the
\* transport.
C7_NoRequestOnBadPayload ==
    BadPayload =>
        /\ call.t.result = Err("SerdeError")
        /\ call.t.builder = 0
        /\ call.t.built = None
        /\ call.t.transport = 0
        /\ call.t.reply = None

C7_Witness ==
    /\ BadPayload
    /\ call.t.op = "replace"
    /\ call.arg.name = "a"
    /\ server.store["a"] # None
    /\ ~call.t.result.ok

\* What an operation returns for the transport's answer: the answer itself,
\* for watch with the stream wrapped in the filter.
Returned(op, reply) ==
    IF op = "watch" /\ reply.ok THEN Ok(FilterMap(reply.val)) ELSE reply

SingleShot ==
    /\ call.t.builder = 1
    /\ call.t.transport <= 1
    /\ ~call.t.built.ok => call.t.transport = 0 /\ call.t.result = Err(call.t.built.err)
    /\ call.t.built.ok =>
          call.t.transport = 1 /\ call.t.result = Returned(call.t.op, call.t.reply)

\* C9 as stated: every operation calls the request builder once and the
\* transport at most once, returns the builder's error without calling the
\* transport when the builder fails, and otherwise returns the transport's
\* result.
C9_AlwaysBuildsOnce == call.t.op # "none" => SingleShot

\* C9: every operation is single-shot. A create or replace whose payload
\* cannot be encoded returns the serialization error without calling the
\* request builder or the transport; every other invocation calls the
\* request builder once and the transport at most once, returns the
\* builder's error without calling the transport when the builder fails, and
\* otherwise returns the transport's result.
C9_SingleShot ==
    call.t.op # "none" =>
        IF BadPayload
        THEN call.t.builder = 0 /\ call.t.transport = 0 /\ call.t.result = Err("SerdeError")
        ELSE SingleShot

C9_Witness ==
    /\ call.t.op = "create"
    /\ BadPayload
    /\ call.arg.pp = "invalid"
    /\ call.t.builder = 0
    /\ call.t.result = Err("SerdeError")

----------------------------------------------------------------------------
(* Claims about the watch sequence                                          *)

Frames == watch.sub.inner.delivered

\* The frames the returned stream has taken from the transport so far.
Taken == SubSeq(Frames, 1, watch.sub.pos)

\* The events of the frames that decoded, in their order.
Decoded(frames) ==
    LET oks == SelectSeq(frames, LAMBDA f : f.ok)
    IN  [k \in 1 .. Len(oks) |-> oks[k].val]

\* C1: the events produced by watch are exactly the successfully decoded
\* frames among those taken from the transport, in their order; a frame that
\* fails to decode yields nothing and does not end the sequence, which ends
\* only once every frame the transport delivered has been taken.
C1_DecodedSubsequence ==
    watch # None =>
        /\ watch.sub.produced = Decoded(Taken)
        /\ watch.sub.done => watch.sub.produced = Decoded(Frames)

C1_Witness ==
    /\ watch # None
    /\ watch.sub.done
    /\ Len(Frames) = 3
    /\ Frames[1].ok /\ Frames[1].val.type = "ADDED"
    /\ Frames[2] = Err("SerdeError")
    /\ Frames[3].ok /\ Frames[3].val.type = "MODIFIED"
    /\ Len(watch.sub.produced) = 2

WatchedFromList == watch # None /\ watch.list # None

\* C6: a watch started at the resource version of the list result obtained
\* just before never yields an event for an object that list result holds,
\* and yields no event at all while the server is not mutated after the
\* list; the request is built for the start version the caller gave.
C6_NoInitialReplay ==
    /\ WatchedFromList =>
          /\ \A i \in 1 .. Len(watch.sub.produced) :
                \A k \in 1 .. Len(watch.list.items) :
                   watch.sub.produced[i].object # watch.list.items[k]
          /\ server.rv = watch.list.rv => watch.sub.produced = <<>>
    /\ (call.t.op = "watch" /\ call.t.builder = 1 /\ call.t.built.ok) =>
          call.t.built.val.version = call.arg.version

C6_Witness ==
    /\ WatchedFromList
    /\ Len(watch.list.items) = 2
    /\ server.rv = watch.list.rv
    /\ watch.sub.done
    /\ Len(Frames) = 1
    /\ watch.sub.produced = <<>>

\* An event was produced from a frame taken after an error of the connection.
EventAfterError ==
    \E i \in 1 .. watch.sub.pos :
       /\ Frames[i] = Err("NetworkError")
       /\ \E j \in (i + 1) .. watch.sub.pos : Frames[j].ok

\* The transport's stream has ended, by itself or with an error, and the
\* returned stream has seen it end.
SourceEnded == watch.sub.inner.closed /\ watch.sub.pos = Len(Frames)

\* C8: one watch call issues exactly one request_events call and never
\* another; the sequence is over only when the transport's stream has ended
\* or failed, no event is produced after an error of the transport's
\* stream, and once the transport's stream has ended the events produced are
\* those of the frames it delivered and no more.
C8_EndsWithStream ==
    watch # None =>
        /\ watch.sub.requests = 1
        /\ watch.sub.done => SourceEnded
        /\ ~EventAfterError
        /\ SourceEnded => Len(watch.sub.produced) = Len(Decoded(Frames))

C8_Witness ==
    /\ watch # None
    /\ watch.sub.done
    /\ watch.sub.requests = 1
    /\ Len(Frames) = 2
    /\ Frames[1].ok
    /\ Frames[2] = Err("NetworkError")
    /\ Len(watch.sub.produced) = 1

====
